---- MODULE Spec2Model ----
(***************************************************************************)
(* Model of the HDE socket layering (SimpleSocket -> BindingSocket ->      *)
(* ListeningSocket), of SimpleServer and of TestServer's                   *)
(* acceptor / handler / responder loop.                                    *)
(*                                                                         *)
(* One process, one thread.  The operating system is the environment: the  *)
(* result of every socket call is drawn from the results that call can     *)
(* give.  C arrays are sequences: C index i is index i + 1 here.           *)
(***************************************************************************)
EXTENDS Integers, Sequences, FiniteSets, TLC

\* ------------------------------------------------------------------ bounds
\* Capacity of TestServer::buffer, scaled down from 30000.
BufferSize == 3

\* The byte values a client may send (0 is the NUL byte).
ByteValues == {0, 71}

\* Values an uninitialised int member may hold.
Indeterminate == {-1, 0, 1}

\* ------------------------------------------------- arguments of the server
AF_INET == 2
SOCK_STREAM == 1
Protocol == 0
Port == 3000
INADDR_ANY == 0
Backlog == 10
TimeoutSec == 5

\* recv(new_socket, buffer, 30000, 0): the length handed to recv is the
\* capacity of the buffer.
RecvLen == BufferSize

\* Marks a log entry of an operation that takes no descriptor.
NoFd == -2

\* Arguments tried for SimpleSocket's constructor: the address families
\* AF_INET and AF_INET6, ports at both ends of 0..65535 and in between, and
\* interfaces as four bytes, most significant first (0.0.0.0, 127.0.0.1,
\* 255.255.255.255).
DomainSamples == {2, 10}
PortSamples == {0, 255, 3000, 65535}
InterfaceSamples ==
    {<<0, 0, 0, 0>>, <<127, 0, 0, 1>>, <<255, 255, 255, 255>>}

\* ----------------------------------------------------------------- helpers
\* A 32-bit value is the tuple of its four bytes, most significant first.
Bytes32(v) ==
    <<(v \div 16777216) % 256, (v \div 65536) % 256, (v \div 256) % 256,
      v % 256>>

\* An htons that leaves the bytes as they are.
htons_no_swap(p) == p % 65536

\* htons / htonl on a little-endian host: the bytes are reversed.
htons(p) == (p % 256) * 256 + ((p \div 256) % 256)

htonl(a) == <<a[4], a[3], a[2], a[1]>>

\* A test_connection that lets the error value -1 through.
test_connection_off_by_one(item_to_test) == item_to_test < -1

\* SimpleSocket::test_connection: TRUE when it calls exit(EXIT_FAILURE).
test_connection(item_to_test) == item_to_test < 0

\* The descriptor the kernel hands out: the lowest one that is not open.
LowestFree(open) ==
    CHOOSE n \in 0..Cardinality(open) :
        n \notin open /\ \A m \in 0..(n - 1) : m \in open

\* strlen over an array: the number of bytes before the first NUL.  With no
\* NUL inside the array the scan runs past its end; the array's length is then
\* the least value it returns.
strlen(s) ==
    IF \E i \in 1..Len(s) : s[i] = 0
    THEN (CHOOSE i \in 1..Len(s) :
              s[i] = 0 /\ \A j \in 1..(i - 1) : s[j] # 0) - 1
    ELSE Len(s)

\* memset(buffer, 0, sizeof(buffer))
ZeroBuffer == [i \in 1..BufferSize |-> 0]

\* A responder literal that holds the status line and the empty line only.
response_status_only ==
    <<72, 84, 84, 80, 47, 49, 46, 49, 32, 50, 48, 48, 32, 79, 75, 13, 10>> \o
    <<13, 10>> \o
    <<0>>

\* The literal of TestServer::responder, with its terminating NUL.
response ==
    <<72, 84, 84, 80, 47, 49, 46, 49, 32, 50, 48, 48, 32, 79, 75, 13, 10>> \o
    <<67, 111, 110, 116, 101, 110, 116, 45, 84, 121, 112, 101, 58, 32, 116,
      101, 120, 116, 47, 112, 108, 97, 105, 110, 13, 10>> \o
    <<67, 111, 110, 110, 101, 99, 116, 105, 111, 110, 58, 32, 99, 108, 111,
      115, 101, 13, 10>> \o
    <<67, 111, 110, 116, 101, 110, 116, 45, 76, 101, 110, 103, 116, 104, 58,
      32, 49, 57, 13, 10>> \o
    <<13, 10>> \o
    <<72, 101, 108, 108, 111, 32, 102, 114, 111, 109, 32, 83, 101, 114, 118,
      101, 114, 33, 13, 10>> \o
    <<0>>

\* ------------------------------------------------------------------- state
VARIABLES
    pc,          \* where the process is
    address,     \* SimpleSocket::address
    sock,        \* SimpleSocket::sock
    connection,  \* SimpleSocket::connection
    binding,     \* BindingSocket::binding
    backlog,     \* ListeningSocket::backlog
    listening,   \* ListeningSocket::listening
    buffer,      \* TestServer::buffer
    new_socket,  \* TestServer::new_socket
    openFds,     \* kernel: the descriptors open in the process
    conns,       \* kernel: the open descriptors that are accepted connections
    calls,       \* history: the socket calls of the set-up, in order
    ops,         \* history: the operations of the current loop iteration
    prev,        \* history: the operations of the iteration before it
    sent,        \* history: the arguments of the sends of this iteration
    socket,      \* SimpleServer::socket: 0 is no object, 1 the ListeningSocket
    rcvtimeo,    \* kernel: SO_RCVTIMEO of the accepted connection, 0 is none
    given,       \* history: the arguments SimpleSocket's constructor was given
    listen_backlog  \* history: the backlog listen was given, -1 before it

vars == <<pc, address, sock, connection, binding, backlog, listening, buffer,
          new_socket, openFds, conns, calls, ops, prev, sent, socket,
          rcvtimeo, given, listen_backlog>>

Call(op, fd, ret) == [op |-> op, fd |-> fd, ret |-> ret]

\* The process starts with stdin, stdout and stderr open.  binding is read by
\* BindingSocket's constructor before anything is stored in it, so it starts
\* with any value; every other member is written before it is read.
Init ==
    /\ pc = "SimpleSocket"
    /\ address = [sin_family |-> 0, sin_port |-> 0, s_addr |-> <<0, 0, 0, 0>>]
    /\ sock = 0
    /\ connection = 0
    /\ binding \in Indeterminate
    /\ backlog = 0
    /\ listening = 0
    /\ buffer = ZeroBuffer
    /\ new_socket = 0
    /\ openFds = {0, 1, 2}
    /\ conns = {}
    /\ calls = <<>>
    /\ ops = <<>>
    /\ prev = <<>>
    /\ sent = <<>>
    /\ socket = 0
    /\ rcvtimeo = 0
    /\ given = [domain |-> 0, port |-> 0, interface |-> <<0, 0, 0, 0>>]
    /\ listen_backlog = -1

\* exit(EXIT_FAILURE) or a fatal signal: the kernel closes every descriptor.
Dies(how) ==
    /\ pc' = how
    /\ openFds' = {}
    /\ conns' = {}

\* ------------------------------------------------------------------ set-up
\* SimpleSocket::SimpleSocket
SimpleSocketCtorWith(domain, port, interface) ==
    /\ pc = "SimpleSocket"
    /\ given' = [domain |-> domain, port |-> port, interface |-> interface]
    /\ address' = [sin_family |-> domain, sin_port |-> htons(port),
                   s_addr |-> htonl(interface)]
    /\ \E r \in {-1, LowestFree(openFds)} :
        /\ sock' = r
        /\ calls' = Append(calls, Call("socket", NoFd, r))
        /\ IF test_connection(r)
           THEN Dies("exited")
           ELSE /\ pc' = "BindingSocket"
                /\ openFds' = openFds \cup {r}
                /\ UNCHANGED conns
    /\ UNCHANGED <<connection, binding, backlog, listening, buffer,
                   new_socket, ops, prev, sent>>
    /\ UNCHANGED <<socket, rcvtimeo, listen_backlog>>

\* SimpleSocket's constructor with the arguments of TestServer::TestServer.
SimpleSocketCtor == SimpleSocketCtorWith(AF_INET, Port, Bytes32(INADDR_ANY))

\* BindingSocket::BindingSocket: the result of bind is stored with
\* set_connection, and test_connection is given the member binding.
BindingSocketCtor ==
    /\ pc = "BindingSocket"
    /\ \E r \in {-1, 0} :
        /\ connection' = r
        /\ calls' = Append(calls, Call("bind", sock, r))
    /\ IF test_connection(binding)
       THEN Dies("exited")
       ELSE /\ pc' = "ListeningSocket"
            /\ UNCHANGED <<openFds, conns>>
    /\ UNCHANGED <<address, sock, binding, backlog, listening, buffer,
                   new_socket, ops, prev, sent>>
    /\ UNCHANGED <<socket, rcvtimeo>>
    /\ UNCHANGED <<given, listen_backlog>>

\* A ListeningSocket constructor that hands test_connection the member binding
\* in place of listening.
ListeningSocketCtor_tests_binding ==
    /\ pc = "ListeningSocket"
    /\ backlog' = Backlog
    /\ \E r \in {-1, 0} :
        /\ listening' = r
        /\ calls' = Append(calls, Call("listen", sock, r))
    /\ IF test_connection(binding)
       THEN Dies("exited")
       ELSE /\ pc' = "TestServer"
            /\ UNCHANGED <<openFds, conns>>
    /\ UNCHANGED <<address, sock, connection, binding, buffer, new_socket,
                   ops, prev, sent>>
    /\ UNCHANGED <<socket, rcvtimeo>>
    /\ listen_backlog' = backlog'
    /\ UNCHANGED given

\* A ListeningSocket constructor that calls start_listening before it has
\* stored the backlog.
ListeningSocketCtor_listens_first ==
    /\ pc = "ListeningSocket"
    /\ listen_backlog' = backlog
    /\ backlog' = Backlog
    /\ \E r \in {-1, 0} :
        /\ listening' = r
        /\ calls' = Append(calls, Call("listen", sock, r))
        /\ IF test_connection(r)
           THEN Dies("exited")
           ELSE /\ pc' = "TestServer"
                /\ UNCHANGED <<openFds, conns>>
    /\ UNCHANGED <<address, sock, connection, binding, buffer, new_socket,
                   ops, prev, sent>>
    /\ UNCHANGED <<socket, rcvtimeo, given>>

\* ListeningSocket::ListeningSocket with start_listening
ListeningSocketCtor ==
    /\ pc = "ListeningSocket"
    /\ backlog' = Backlog
    /\ \E r \in {-1, 0} :
        /\ listening' = r
        /\ calls' = Append(calls, Call("listen", sock, r))
        /\ IF test_connection(r)
           THEN Dies("exited")
           ELSE /\ pc' = "TestServer"
                /\ UNCHANGED <<openFds, conns>>
    /\ UNCHANGED <<address, sock, connection, binding, buffer, new_socket,
                   ops, prev, sent>>
    /\ UNCHANGED <<socket, rcvtimeo>>
    /\ listen_backlog' = backlog'
    /\ UNCHANGED given

\* A launch that calls responder before handler.
launch_responder_first(stage) ==
    CASE stage = "acceptor" -> "responder"
      [] stage = "responder" -> "handler"
      [] stage = "handler" -> "acceptor"

\* TestServer::launch: the stage that follows a stage that has returned.
launch(stage) ==
    CASE stage = "acceptor" -> "handler"
      [] stage = "handler" -> "responder"
      [] stage = "responder" -> "acceptor"

\* SimpleServer::SimpleServer storing the pointer to the ListeningSocket that
\* has been constructed, then the body of TestServer::TestServer.
TestServerCtor ==
    /\ pc = "TestServer"
    /\ buffer' = ZeroBuffer
    /\ pc' = "acceptor"
    /\ UNCHANGED <<address, sock, connection, binding, backlog, listening,
                   new_socket, openFds, conns, calls, ops, prev, sent>>
    /\ socket' = 1
    /\ UNCHANGED rcvtimeo
    /\ UNCHANGED <<given, listen_backlog>>

\* buffer[bytes_read] = '\0' with bytes_read = sizeof(buffer): the store is one
\* byte past the array.  new_socket is the member declared right after buffer,
\* so the store either is not seen in it or clears its lowest byte.
OutOfBoundsStore(ns) == {ns, (ns \div 256) * 256}

\* -------------------------------------------------------------------- loop
\* An acceptor that does not clear the buffer before the read.
AcceptorAccept_no_memset ==
    /\ pc = "acceptor"
    /\ prev' = ops
    /\ sent' = <<>>
    /\ \E r \in {-1, LowestFree(openFds)} :
        /\ new_socket' = r
        /\ IF r < 0
           THEN /\ ops' = <<Call("accept", sock, r)>>
                /\ pc' = launch("acceptor")
                /\ UNCHANGED <<openFds, conns, rcvtimeo>>
           ELSE /\ \E so \in {-1, 0} :
                    /\ ops' = <<Call("accept", sock, r),
                                Call("setsockopt", r, so)>>
                    /\ rcvtimeo' = IF so = 0 THEN TimeoutSec ELSE 0
                /\ openFds' = openFds \cup {r}
                /\ conns' = conns \cup {r}
                /\ pc' = "recv"
    /\ UNCHANGED <<address, sock, connection, binding, backlog, listening,
                   calls, buffer, socket>>
    /\ UNCHANGED <<given, listen_backlog>>

\* An acceptor that sets the receive timeout on the listening descriptor.
AcceptorAccept_timeout_on_listener ==
    /\ pc = "acceptor"
    /\ prev' = ops
    /\ sent' = <<>>
    /\ \E r \in {-1, LowestFree(openFds)} :
        /\ new_socket' = r
        /\ IF r < 0
           THEN /\ ops' = <<Call("accept", sock, r)>>
                /\ pc' = launch("acceptor")
                /\ UNCHANGED <<buffer, openFds, conns, rcvtimeo>>
           ELSE /\ \E so \in {-1, 0} :
                    /\ ops' = <<Call("accept", sock, r),
                                Call("memset", NoFd, 0),
                                Call("setsockopt", sock, so)>>
                    /\ rcvtimeo' = 0
                /\ buffer' = ZeroBuffer
                /\ openFds' = openFds \cup {r}
                /\ conns' = conns \cup {r}
                /\ pc' = "recv"
    /\ UNCHANGED <<address, sock, connection, binding, backlog, listening,
                   calls>>
    /\ UNCHANGED socket
    /\ UNCHANGED <<given, listen_backlog>>

\* TestServer::acceptor up to the call of recv: accept, and on success the
\* memset of the buffer and the setsockopt of the receive timeout.
AcceptorAccept ==
    /\ pc = "acceptor"
    /\ prev' = ops
    /\ sent' = <<>>
    /\ \E r \in {-1, LowestFree(openFds)} :
        /\ new_socket' = r
        /\ IF r < 0
           THEN /\ ops' = <<Call("accept", sock, r)>>
                /\ pc' = launch("acceptor")
                /\ UNCHANGED <<buffer, openFds, conns, rcvtimeo>>
           ELSE /\ \E so \in {-1, 0} :
                    /\ ops' = <<Call("accept", sock, r),
                                Call("memset", NoFd, 0),
                                Call("setsockopt", r, so)>>
                    /\ rcvtimeo' = IF so = 0 THEN TimeoutSec ELSE 0
                /\ buffer' = ZeroBuffer
                /\ openFds' = openFds \cup {r}
                /\ conns' = conns \cup {r}
                /\ pc' = "recv"
    /\ UNCHANGED <<address, sock, connection, binding, backlog, listening,
                   calls>>
    /\ UNCHANGED socket
    /\ UNCHANGED <<given, listen_backlog>>

\* An acceptor that closes the connection after a failed read only, not after
\* a read of zero bytes.
AcceptorRecv_no_close_on_zero ==
    /\ pc = "recv"
    /\ pc' = launch("acceptor")
    /\ \/ /\ ops' = ops \o <<Call("recv", new_socket, -1),
                             Call("close", new_socket,
                                  IF new_socket \in openFds THEN 0 ELSE -1)>>
          /\ openFds' = openFds \ {new_socket}
          /\ conns' = conns \ {new_socket}
          /\ UNCHANGED <<buffer, new_socket>>
       \/ /\ ops' = Append(ops, Call("recv", new_socket, 0))
          /\ UNCHANGED <<buffer, new_socket, openFds, conns>>
       \/ \E n \in 1..RecvLen : \E data \in [1..n -> ByteValues] :
            /\ ops' = Append(ops, Call("recv", new_socket, n))
            /\ LET received == [i \in 1..BufferSize |->
                                   IF i <= n THEN data[i] ELSE buffer[i]]
               IN IF n < BufferSize
                  THEN /\ buffer' = [received EXCEPT ![n + 1] = 0]
                       /\ UNCHANGED new_socket
                  ELSE /\ buffer' = received
                       /\ new_socket' \in OutOfBoundsStore(new_socket)
            /\ UNCHANGED <<openFds, conns>>
    /\ UNCHANGED <<address, sock, connection, binding, backlog, listening,
                   calls, prev, sent>>
    /\ UNCHANGED <<socket, rcvtimeo>>
    /\ UNCHANGED <<given, listen_backlog>>

\* TestServer::acceptor from the call of recv to its return.
AcceptorRecv ==
    /\ pc = "recv"
    /\ pc' = launch("acceptor")
    /\ \/ \E n \in {-1, 0} :
            /\ ops' = ops \o <<Call("recv", new_socket, n),
                               Call("close", new_socket,
                                    IF new_socket \in openFds THEN 0 ELSE -1)>>
            /\ openFds' = openFds \ {new_socket}
            /\ conns' = conns \ {new_socket}
            /\ UNCHANGED <<buffer, new_socket>>
       \/ \E n \in 1..RecvLen : \E data \in [1..n -> ByteValues] :
            /\ ops' = Append(ops, Call("recv", new_socket, n))
            /\ LET received == [i \in 1..BufferSize |->
                                   IF i <= n THEN data[i] ELSE buffer[i]]
               IN IF n < BufferSize
                  THEN /\ buffer' = [received EXCEPT ![n + 1] = 0]
                       /\ UNCHANGED new_socket
                  ELSE /\ buffer' = received
                       /\ new_socket' \in OutOfBoundsStore(new_socket)
            /\ UNCHANGED <<openFds, conns>>
    /\ UNCHANGED <<address, sock, connection, binding, backlog, listening,
                   calls, prev, sent>>
    /\ UNCHANGED <<socket, rcvtimeo>>
    /\ UNCHANGED <<given, listen_backlog>>

\* A handler that clears the buffer once it has logged the request.
Handler_clears_buffer ==
    /\ pc = "handler"
    /\ LET n == strlen(buffer)
       IN ops' = Append(ops, Call(IF n > 0 THEN "log_request" ELSE "log_empty",
                                  NoFd, n))
    /\ buffer' = ZeroBuffer
    /\ pc' = launch("handler")
    /\ UNCHANGED <<address, sock, connection, binding, backlog, listening,
                   new_socket, openFds, conns, calls, prev, sent>>
    /\ UNCHANGED <<socket, rcvtimeo>>
    /\ UNCHANGED <<given, listen_backlog>>

\* TestServer::handler
Handler ==
    /\ pc = "handler"
    /\ LET n == strlen(buffer)
       IN ops' = Append(ops, Call(IF n > 0 THEN "log_request" ELSE "log_empty",
                                  NoFd, n))
    /\ pc' = launch("handler")
    /\ UNCHANGED <<address, sock, connection, binding, backlog, listening,
                   buffer, new_socket, openFds, conns, calls, prev, sent>>
    /\ UNCHANGED <<socket, rcvtimeo>>
    /\ UNCHANGED <<given, listen_backlog>>

\* What send(fd, ..., len, 0) returns on a blocking descriptor: everything was
\* queued, or an error.  A descriptor that is no connection gives an error.
SendResults(fd, len) == IF fd \in conns THEN {len, -1} ELSE {-1}

\* A responder that closes the listening descriptor in place of new_socket.
Responder_closes_listener ==
    /\ pc = "responder"
    /\ LET fd == new_socket
           len == strlen(response)
           arg == [fd |-> fd, data |-> SubSeq(response, 1, len), len |-> len]
       IN /\ sent' = Append(sent, arg)
          /\ \/ /\ fd \in conns
                /\ ops' = Append(ops, Call("send", fd, -1))
                /\ Dies("killed")
             \/ \E r \in SendResults(fd, len) :
                /\ ops' = ops \o
                     <<Call("send", fd, r),
                       Call("shutdown", fd, IF fd \in conns THEN 0 ELSE -1),
                       Call("close", sock, IF sock \in openFds THEN 0 ELSE -1)>>
                /\ openFds' = openFds \ {sock}
                /\ conns' = conns \ {sock}
                /\ pc' = launch("responder")
    /\ UNCHANGED <<address, sock, connection, binding, backlog, listening,
                   buffer, new_socket, calls, prev>>
    /\ UNCHANGED <<socket, rcvtimeo>>
    /\ UNCHANGED <<given, listen_backlog>>

\* TestServer::responder.  A send on a connection the peer has reset raises
\* SIGPIPE, whose default action ends the process.
Responder ==
    /\ pc = "responder"
    /\ LET fd == new_socket
           len == strlen(response)
           arg == [fd |-> fd, data |-> SubSeq(response, 1, len), len |-> len]
       IN /\ sent' = Append(sent, arg)
          /\ \/ /\ fd \in conns
                /\ ops' = Append(ops, Call("send", fd, -1))
                /\ Dies("killed")
             \/ \E r \in SendResults(fd, len) :
                /\ ops' = ops \o
                     <<Call("send", fd, r),
                       Call("shutdown", fd, IF fd \in conns THEN 0 ELSE -1),
                       Call("close", fd, IF fd \in openFds THEN 0 ELSE -1)>>
                /\ openFds' = openFds \ {fd}
                /\ conns' = conns \ {fd}
                /\ pc' = launch("responder")
    /\ UNCHANGED <<address, sock, connection, binding, backlog, listening,
                   buffer, new_socket, calls, prev>>
    /\ UNCHANGED <<socket, rcvtimeo>>
    /\ UNCHANGED <<given, listen_backlog>>

Next ==
    \/ SimpleSocketCtor
    \/ BindingSocketCtor
    \/ ListeningSocketCtor
    \/ TestServerCtor
    \/ AcceptorAccept
    \/ AcceptorRecv
    \/ Handler
    \/ Responder

Spec == Init /\ [][Next]_vars

\* SimpleSocket's constructor with any of the sampled arguments.
SimpleSocketCtorAny ==
    \E domain \in DomainSamples, port \in PortSamples,
       interface \in InterfaceSamples :
        SimpleSocketCtorWith(domain, port, interface)

\* The program with a SimpleSocket constructed from any sampled arguments.
AddrNext ==
    \/ SimpleSocketCtorAny
    \/ BindingSocketCtor
    \/ ListeningSocketCtor
    \/ TestServerCtor
    \/ AcceptorAccept
    \/ AcceptorRecv
    \/ Handler
    \/ Responder

AddrSpec == Init /\ [][AddrNext]_vars

\* The process keeps running: once acceptor has returned, handler and responder
\* are executed; neither waits for the peer.  (accept and recv may wait.)
LiveSpec == Spec /\ WF_vars(Handler) /\ WF_vars(Responder)

\* recv on a connection whose SO_RCVTIMEO is set returns when the timeout has
\* run out, if not before.  With no timeout it waits for the peer.
RecvTimesOut == rcvtimeo > 0 /\ AcceptorRecv

TimeoutSpec ==
    Spec /\ WF_vars(Handler) /\ WF_vars(Responder) /\ WF_vars(RecvTimesOut)

\* ------------------------------------------------------------- type sanity
TypeOK ==
    /\ pc \in {"SimpleSocket", "BindingSocket", "ListeningSocket",
               "TestServer", "acceptor", "recv", "handler", "responder",
               "exited", "killed"}
    /\ buffer \in [1..BufferSize -> ByteValues]
    /\ conns \subseteq openFds
    /\ Len(ops) <= 9

\* ================================================================== claims
\* The set-up calls whose result says the call failed.
SetupCallsSucceeded == \A i \in 1..Len(calls) : calls[i].ret >= 0

\* The set-up calls are socket, bind, listen, each once and in that order.
SetupOrder ==
    /\ Len(calls) <= 3
    /\ \A i \in 1..Len(calls) : calls[i].op = <<"socket", "bind", "listen">>[i]

InLoop == pc \in {"acceptor", "recv", "handler", "responder", "killed"}

\* C1: when socket, bind and listen all succeed the set-up never ends the
\* process; it calls socket, bind, listen once each in that order, and the
\* first accept comes only after listen has succeeded.
C1_SetupSucceedsWhenCallsSucceed ==
    /\ SetupCallsSucceeded => pc # "exited"
    /\ SetupOrder
    /\ (InLoop \/ ops # <<>>) =>
          /\ Len(calls) = 3
          /\ calls[3].op = "listen"
          /\ calls[3].ret >= 0

\* C2: a failed bind ends the process before any listen call; every listen
\* call is preceded by a bind call that succeeded.
C2_ListenOnlyAfterSuccessfulBind ==
    /\ (Len(calls) >= 2 /\ calls[2].ret < 0) =>
          (pc = "exited" /\ Len(calls) = 2)
    /\ \A i \in 1..Len(calls) :
          calls[i].op = "listen" =>
             \E j \in 1..(i - 1) : calls[j].op = "bind" /\ calls[j].ret >= 0

\* C3: a failed socket() ends the process before bind, listen or accept is
\* attempted, so every bind, listen and accept is given a descriptor from
\* get_sock() that is not negative.
C3_SocketFailureIsFatal ==
    /\ (Len(calls) >= 1 /\ calls[1].ret < 0) =>
          (pc = "exited" /\ Len(calls) = 1 /\ ops = <<>> /\ prev = <<>>)
    /\ \A i \in 1..Len(calls) :
          calls[i].op \in {"bind", "listen"} =>
             (calls[i].fd >= 0 /\ calls[i].fd = calls[1].ret)
    /\ \A i \in 1..Len(ops) :
          ops[i].op = "accept" =>
             (ops[i].fd >= 0 /\ ops[i].fd = calls[1].ret)

\* C3 witness: socket() failed and the process has exited.
C3_Witness ==
    /\ pc = "exited"
    /\ Len(calls) = 1
    /\ calls[1].op = "socket"
    /\ calls[1].ret < 0

\* C4: a failed listen ends the process and the loop is never entered: an
\* accept is only ever issued after a listen that succeeded.
C4_ListenFailureIsFatal ==
    /\ (Len(calls) >= 3 /\ calls[3].ret < 0) =>
          (pc = "exited" /\ ops = <<>> /\ prev = <<>>)
    /\ (InLoop \/ pc = "TestServer" \/ ops # <<>>) =>
          /\ Len(calls) = 3
          /\ calls[3].op = "listen"
          /\ calls[3].ret >= 0
          /\ listening = calls[3].ret

\* C4 witness: listen failed after a bind that was let through, and the
\* process has exited.
C4_Witness ==
    /\ pc = "exited"
    /\ Len(calls) = 3
    /\ calls[3].op = "listen"
    /\ calls[3].ret < 0

\* ---------------------------------------------------- the loop's history
\* The stage of launch an entry of an iteration's history belongs to:
\* 1 acceptor, 2 handler, 3 responder.  A close right after the recv is the
\* acceptor's, any other close is the responder's.
StageOfEntry(log, i) ==
    CASE log[i].op \in {"accept", "memset", "setsockopt", "recv"} -> 1
      [] log[i].op \in {"log_request", "log_empty"} -> 2
      [] log[i].op \in {"send", "shutdown"} -> 3
      [] log[i].op = "close" -> IF log[i - 1].op = "recv" THEN 1 ELSE 3

EntriesOfStage(log, st) == {i \in 1..Len(log) : StageOfEntry(log, i) = st}

\* An iteration's history runs through the stages in order, from one accept.
InStageOrder(log) ==
    /\ log # <<>> => log[1].op = "accept"
    /\ \A i \in 2..Len(log) : log[i].op # "accept"
    /\ \A i, j \in 1..Len(log) :
          i < j => StageOfEntry(log, i) <= StageOfEntry(log, j)

\* The history of an iteration whose respond stage has returned.
RespondCompleted(log) ==
    /\ Len(log) >= 4
    /\ log[Len(log)].op = "close"
    /\ log[Len(log) - 1].op = "shutdown"
    /\ log[Len(log) - 2].op = "send"
    /\ Cardinality(EntriesOfStage(log, 2)) = 1
    /\ Cardinality(EntriesOfStage(log, 3)) = 3

Stage == IF pc = "recv" THEN "acceptor" ELSE pc

\* A step that leaves a stage of the loop enters the stage launch calls next,
\* or is the death of the process.
StageStep ==
    (Stage \in {"acceptor", "handler", "responder"} /\ Stage' # Stage) =>
        \/ <<Stage, Stage'>> \in {<<"acceptor", "handler">>,
                                  <<"handler", "responder">>,
                                  <<"responder", "acceptor">>}
        \/ Stage' = "killed"

StagesInOrder ==
    /\ InStageOrder(ops)
    /\ InStageOrder(prev)
    /\ prev # <<>> => RespondCompleted(prev)
    /\ pc = "recv" => (ops # <<>> /\ EntriesOfStage(ops, 1) = 1..Len(ops))
    /\ pc = "handler" => (ops # <<>> /\ EntriesOfStage(ops, 1) = 1..Len(ops))
    /\ pc = "responder" =>
          /\ EntriesOfStage(ops, 2) = {Len(ops)}
          /\ EntriesOfStage(ops, 3) = {}
    /\ (pc = "acceptor" /\ ops # <<>>) => RespondCompleted(ops)

\* C5: the loop is strictly sequential: the stages of an iteration run in the
\* order accept, handle, respond, each beginning after the one before it has
\* returned, and the next accept begins only after the respond stage of the
\* iteration before it has returned.
C5_StrictlySequential == [][StageStep]_vars /\ []StagesInOrder

\* C5 witness: a second iteration has reached its respond stage after an
\* accepted connection, the first iteration having been completed.
C5_Witness ==
    /\ pc = "responder"
    /\ prev # <<>>
    /\ ops[1].ret >= 0

\* C6: after a failed accept the handle and respond stages are skipped and the
\* server keeps running: nothing but the accept is done in that iteration.
C6_FailedAcceptSkipsHandleAndRespond ==
    /\ (ops # <<>> /\ ops[1].ret < 0) =>
          (Len(ops) = 1 /\ pc \notin {"exited", "killed"})
    /\ (prev # <<>> /\ prev[1].ret < 0) => Len(prev) = 1

\* C7: after a read that failed or returned zero bytes the connection is
\* closed and nothing else is done in that iteration: no inspection of the
\* buffer, no send, no shutdown, no second close.
C7_FailedReadSkipsHandleAndRespond ==
    \A log \in {ops, prev} : \A i \in 1..Len(log) :
        (log[i].op = "recv" /\ log[i].ret <= 0) =>
            /\ Len(log) = i + 1
            /\ log[i + 1].op = "close"
            /\ log[i + 1].fd = log[1].ret

\* The fixed response of the server's wire behaviour, byte by byte:
\* status line, Content-Type, Connection, Content-Length, empty line, body.
FixedResponse ==
    <<72, 84, 84, 80, 47, 49, 46, 49, 32, 50, 48, 48, 32, 79, 75, 13, 10,
      67, 111, 110, 116, 101, 110, 116, 45, 84, 121, 112, 101, 58, 32, 116,
      101, 120, 116, 47, 112, 108, 97, 105, 110, 13, 10,
      67, 111, 110, 110, 101, 99, 116, 105, 111, 110, 58, 32, 99, 108, 111,
      115, 101, 13, 10,
      67, 111, 110, 116, 101, 110, 116, 45, 76, 101, 110, 103, 116, 104, 58,
      32, 49, 57, 13, 10,
      13, 10,
      72, 101, 108, 108, 111, 32, 102, 114, 111, 109, 32, 83, 101, 114, 118,
      101, 114, 33, 13, 10>>

SendEntries(log) == {i \in 1..Len(log) : log[i].op = "send"}

\* The read of the iteration returned a payload shorter than the buffer.
SmallPayload(log) ==
    \E i \in 1..Len(log) :
        log[i].op = "recv" /\ log[i].ret \in 1..(BufferSize - 1)

\* C8: every send is given exactly the fixed response, whatever was received
\* and whatever failed before; a connection whose payload was not empty and
\* shorter than the buffer gets one send of it, on its own descriptor, which
\* writes all of it or fails.
C8_OnlyTheFixedResponseIsSent ==
    /\ \A i \in 1..Len(sent) :
          sent[i].data = FixedResponse /\ sent[i].len = Len(FixedResponse)
    /\ Len(sent) = Cardinality(SendEntries(ops))
    /\ \A i \in SendEntries(ops) : ops[i].ret \in {-1, Len(FixedResponse)}
    /\ (SmallPayload(ops) /\ pc \in {"acceptor", "killed"}) =>
          /\ Len(sent) = 1
          /\ sent[1].fd = ops[1].ret
          /\ \A i \in SendEntries(ops) : ops[i].fd = ops[1].ret

\* C8 witness: a payload of two bytes was received and the send that followed
\* wrote the whole response.
C8_Witness ==
    /\ pc = "acceptor"
    /\ \E i \in 1..Len(ops) : ops[i].op = "recv" /\ ops[i].ret = 2
    /\ buffer[1] # 0
    /\ \E i \in SendEntries(ops) : ops[i].ret = Len(FixedResponse)

\* C9: the respond stage does one send, a shutdown and a close, in that order
\* and on the connection descriptor, and when it has returned the descriptor
\* accepted in the iteration is closed.
C9_RespondSendsShutsDownCloses ==
    (pc = "acceptor" /\ ops # <<>>) =>
        /\ RespondCompleted(ops)
        /\ ops[Len(ops) - 2].fd = ops[Len(ops)].fd
        /\ ops[Len(ops) - 1].fd = ops[Len(ops)].fd
        /\ ops[1].ret >= 0 =>
              (ops[Len(ops)].fd = ops[1].ret /\ ops[1].ret \notin openFds)

\* C10: no accepted descriptor is open when accept is called, and never more
\* than one accepted descriptor is open.
C10_NoDescriptorLeak ==
    /\ Cardinality(conns) <= 1
    /\ pc = "acceptor" => conns = {}

\* The loop has been entered: an accept has been issued or is being issued.
LoopEntered == ops # <<>> \/ pc \in {"acceptor", "recv", "handler", "responder"}

\* C11: once the loop has been entered nothing the server does ends it:
\* whatever accept, recv and send give, the process is still running.
C11_LoopNeverEndsItself ==
    (ops # <<>> \/ prev # <<>>) => pc \notin {"killed", "exited"}

HandlerEntries(log) ==
    {i \in 1..Len(log) : log[i].op \in {"log_request", "log_empty"}}

\* C12: right before every read on an accepted connection every byte of the
\* buffer is zero, whatever earlier connections left in it.
C12_BufferZeroBeforeRead == pc = "recv" => buffer = ZeroBuffer

\* C12 witness: a read is about to start on a connection accepted after an
\* iteration in which the handler found bytes in the buffer.
C12_Witness ==
    /\ pc = "recv"
    /\ \E i \in HandlerEntries(prev) : prev[i].op = "log_request"

\* C13: whenever the handler inspects the buffer, the buffer was cleared
\* earlier in the same iteration: the bytes the handler finds in it were not
\* left there by an earlier iteration.
C13_BufferClearedBeforeHandler ==
    \A i \in HandlerEntries(ops) :
        ops[i].op = "log_request" =>
            \E j \in 1..(i - 1) : ops[j].op = "memset"

\* The read of the iteration returned zero bytes.
ZeroByteRead(log) ==
    \E i \in 1..Len(log) : log[i].op = "recv" /\ log[i].ret = 0

\* The iteration's read is followed by a close of the accepted descriptor.
ClosedAfterRead(log) ==
    \E i \in 1..(Len(log) - 1) :
        /\ log[i].op = "recv"
        /\ log[i + 1].op = "close"
        /\ log[i + 1].fd = log[1].ret
        /\ log[i + 1].ret = 0

\* C14: after a read of zero bytes the connection is closed, the process does
\* not die, and the accept of the next iteration is eventually issued.
C14_ZeroByteReadThenNextAccept ==
    /\ [](ZeroByteRead(ops) =>
            /\ ClosedAfterRead(ops)
            /\ ops[1].ret \notin openFds
            /\ pc \notin {"killed", "exited"})
    /\ ((ZeroByteRead(ops) /\ pc = "handler") ~>
            (ZeroByteRead(ops) /\ pc = "acceptor"))

\* C14 witness: the iteration of a zero-byte read has run to its end and the
\* next accept is being issued.
C14_Witness == ZeroByteRead(ops) /\ pc = "acceptor"

\* The send of the iteration returned an error.
SendFailed(log) == \E i \in SendEntries(log) : log[i].ret < 0

\* C15: when the send of the response returns an error, the connection is
\* still shut down and closed in the same iteration and the loop goes on to
\* the next accept.
C15_FailedSendStillCloses ==
    (SendFailed(ops) /\ pc # "killed") =>
        /\ pc = "acceptor"
        /\ RespondCompleted(ops)
        /\ ops[1].ret >= 0 =>
              /\ ops[Len(ops) - 1].fd = ops[1].ret
              /\ ops[Len(ops)].fd = ops[1].ret
              /\ ops[1].ret \notin openFds

\* C16: the server owns one ListeningSocket, created by the constructor and
\* never replaced: once the loop has been entered the pointer, the listening
\* descriptor and the socket's members never change, and no stage closes,
\* shuts down, rebinds or re-listens the listening descriptor.
C16_OneListeningSocket ==
    /\ [][LoopEntered =>
            /\ socket' = socket
            /\ sock' = sock
            /\ address' = address
            /\ backlog' = backlog
            /\ listening' = listening
            /\ calls' = calls]_vars
    /\ [](LoopEntered =>
            /\ socket = 1
            /\ SetupOrder
            /\ Len(calls) = 3
            /\ sock = calls[1].ret
            /\ pc # "killed" => (sock \in openFds /\ sock \notin conns)
            /\ \A log \in {ops, prev} : \A i \in 1..Len(log) :
                  /\ log[i].op \in {"close", "shutdown", "send", "recv",
                                    "setsockopt"} => log[i].fd # sock
                  /\ log[i].op = "accept" => log[i].fd = sock)

\* C16 witness: two iterations have run to their end on the same listening
\* descriptor.
C16_Witness ==
    /\ pc = "acceptor"
    /\ prev # <<>>
    /\ socket = 1
    /\ ops[1].fd = sock
    /\ prev[1].fd = sock

\* C17: the handler changes no state of the server, whatever the buffer holds.
C17_HandlerChangesNothing ==
    [][pc = "handler" =>
          /\ buffer' = buffer
          /\ new_socket' = new_socket
          /\ openFds' = openFds
          /\ conns' = conns
          /\ socket' = socket
          /\ sock' = sock
          /\ address' = address
          /\ backlog' = backlog
          /\ listening' = listening
          /\ binding' = binding
          /\ connection' = connection]_vars

\* C17 witness: the handler has returned after finding a request in the buffer
\* of an open connection.
C17_Witness ==
    /\ pc = "responder"
    /\ ops[Len(ops)].op = "log_request"
    /\ new_socket \in conns
    /\ buffer # ZeroBuffer

\* BindingSocket's constructor has returned.
BoundSocketConstructed ==
    \/ Len(calls) >= 3
    \/ Len(calls) = 2 /\ pc = "ListeningSocket"

\* C18: once BindingSocket's constructor has returned, get_binding() is the
\* value bind returned: it marks success exactly when bind succeeded.
C18_BindingIsBindResult ==
    BoundSocketConstructed =>
        /\ binding = calls[2].ret
        /\ binding >= 0 <=> calls[2].ret >= 0

RecvEntries(log) == {i \in 1..Len(log) : log[i].op = "recv"}

\* C19: after a successful accept the server clears the whole buffer, sets the
\* receive timeout of 5 seconds on the accepted descriptor and then reads once
\* from that descriptor; there is no second read.
C19_ClearTimeoutThenOneRead ==
    (ops # <<>> /\ ops[1].ret >= 0) =>
        /\ Len(ops) >= 3
        /\ ops[2].op = "memset"
        /\ ops[3].op = "setsockopt"
        /\ ops[3].fd = ops[1].ret
        /\ ops[3].ret = 0 => rcvtimeo = 5
        /\ pc = "recv" => (Len(ops) = 3 /\ buffer = ZeroBuffer)
        /\ pc # "recv" =>
              /\ RecvEntries(ops) = {4}
              /\ ops[4].fd = ops[1].ret

\* C19 witness: a connection was accepted, its timeout set and its one read
\* has returned.
C19_Witness ==
    /\ pc = "handler"
    /\ ops[1].ret >= 0
    /\ ops[3].ret = 0
    /\ RecvEntries(ops) = {4}

\* C20: the handler takes the request branch exactly when one or more bytes
\* were received in the iteration, whatever their values, and the empty branch
\* exactly when none was.
C20_HandlerBranchMatchesPayload ==
    \A i \in HandlerEntries(ops) :
        ops[i].op = "log_request" <=>
            \E j \in RecvEntries(ops) : ops[j].ret >= 1

\* The read of the iteration returned an error.
ReadFailed(log) == \E i \in RecvEntries(log) : log[i].ret < 0

\* C21: a client that is connected and stays silent cannot hold the server:
\* every read eventually returns, also when setsockopt did not set the
\* timeout, and after a read that failed the next accept is eventually issued.
C21_ReadEventuallyReturns ==
    /\ (pc = "recv") ~> (pc # "recv")
    /\ (ReadFailed(ops) /\ pc = "handler") ~> (ReadFailed(ops) /\ pc = "acceptor")

\* ListeningSocket's constructor has returned.
ListeningSocketConstructed ==
    Len(calls) = 3 /\ pc \notin {"ListeningSocket", "exited"}

\* C22: once the ListeningSocket is constructed, get_backlog() is the backlog
\* it was given, listen was called with that backlog on the descriptor that
\* was bound, and get_listening() is what listen returned; the server's
\* backlog is 10 and its port 3000.
C22_BacklogAndListening ==
    ListeningSocketConstructed =>
        /\ backlog = 10
        /\ listen_backlog = backlog
        /\ calls[2].op = "bind"
        /\ calls[3].op = "listen"
        /\ calls[3].fd = calls[2].fd
        /\ calls[3].fd = sock
        /\ listening = calls[3].ret
        /\ given.port = 3000

\* C22 witness: the ListeningSocket is constructed and the loop is running.
C22_Witness ==
    /\ pc = "acceptor"
    /\ Len(calls) = 3
    /\ listen_backlog = 10
    /\ listening = 0

\* SimpleSocket's constructor has stored the address.
SimpleSocketConstructed == Len(calls) >= 1

\* The two bytes of a port in network byte order, most significant first.
NetworkOrder16(p) == <<(p \div 256) % 256, p % 256>>

\* The bytes a 16-bit and a 32-bit value occupy in memory, lowest address
\* first, on the little-endian hosts the server is built for.
InMemory16(n) == <<n % 256, (n \div 256) % 256>>
InMemory32(v) == <<v[4], v[3], v[2], v[1]>>

\* C23: for every port and interface given to SimpleSocket's constructor the
\* stored address holds the given family, the port in network byte order and
\* the interface in network byte order, and no later operation changes it.
C23_AddressInNetworkOrder ==
    /\ [](SimpleSocketConstructed =>
            /\ address.sin_family = given.domain
            /\ InMemory16(address.sin_port) = NetworkOrder16(given.port)
            /\ InMemory32(address.s_addr) = given.interface)
    /\ [][SimpleSocketConstructed => address' = address]_vars

\* C23 witness: a socket constructed for port 3000 on 127.0.0.1 stores the
\* port as 0xB80B, and the loop has run past the constructor.
C23_Witness ==
    /\ pc = "responder"
    /\ given.port = 3000
    /\ given.interface = <<127, 0, 0, 1>>
    /\ address.sin_port = 47115
    /\ address.s_addr = <<1, 0, 0, 127>>

\* C24: every write into the receive buffer is at an index of the buffer: for
\* every read result n from 1 to the length passed to the read, the
\* terminating zero written after the n received bytes lies inside the buffer.
C24_TerminatorInsideBuffer ==
    \A i \in RecvEntries(ops) :
        ops[i].ret >= 1 => (ops[i].ret + 1) \in DOMAIN buffer

CloseEntries(log) == {i \in 1..Len(log) : log[i].op = "close"}

\* C25: close is only ever called on a descriptor that is open: never on one
\* already closed in the same iteration, never on the value a failed accept
\* left.
C25_CloseOnlyOpenDescriptors ==
    \A i \in CloseEntries(ops) :
        /\ ops[i].ret = 0
        /\ ops[i].fd >= 0
        /\ \A j \in CloseEntries(ops) : j < i => ops[j].fd # ops[i].fd

\* C26: whenever the respond stage calls send or shutdown, the descriptor is
\* the one a successful accept returned in the same iteration, and it has not
\* been closed yet.
C26_SendAndShutdownOnOpenConnection ==
    \A i \in 1..Len(ops) :
        ops[i].op \in {"send", "shutdown"} =>
            /\ ops[1].op = "accept"
            /\ ops[1].ret >= 0
            /\ ops[i].fd = ops[1].ret
            /\ \A j \in CloseEntries(ops) : j < i => ops[j].fd # ops[i].fd

\* "Content-Length: " and the empty line that ends the headers.
ContentLengthName ==
    <<67, 111, 110, 116, 101, 110, 116, 45, 76, 101, 110, 103, 116, 104, 58,
      32>>
EndOfHeaders == <<13, 10, 13, 10>>

\* The first index at which pat occurs in s.
IndexOf(s, pat) ==
    CHOOSE i \in 1..(Len(s) - Len(pat) + 1) :
        /\ SubSeq(s, i, i + Len(pat) - 1) = pat
        /\ \A j \in 1..(i - 1) : SubSeq(s, j, j + Len(pat) - 1) # pat

\* The number a sequence of decimal digits denotes.
RECURSIVE DecimalValue(_)
DecimalValue(digits) ==
    IF digits = <<>>
    THEN 0
    ELSE 10 * DecimalValue(SubSeq(digits, 1, Len(digits) - 1))
         + (digits[Len(digits)] - 48)

\* The number the Content-Length header of a message announces.
AnnouncedLength(msg) ==
    LET from == IndexOf(msg, ContentLengthName) + Len(ContentLengthName)
        to == CHOOSE e \in from..Len(msg) :
                 /\ msg[e] \notin 48..57
                 /\ \A k \in from..(e - 1) : msg[k] \in 48..57
    IN DecimalValue(SubSeq(msg, from, to - 1))

\* The number of bytes that follow the empty line ending the headers.
BodyLength(msg) == Len(msg) - (IndexOf(msg, EndOfHeaders) + Len(EndOfHeaders) - 1)

\* C27: the number announced in the Content-Length header of what is sent
\* equals the number of bytes of the body after the empty line.
C27_ContentLengthMatchesBody ==
    \A i \in 1..Len(sent) :
        AnnouncedLength(sent[i].data) = BodyLength(sent[i].data)
====
